---- MODULE Spec2Model ----
(***************************************************************************)
(* A model of the voxa voice assistant: the task manager with its timer    *)
(* and polling threads, the state manager, the assistant's main loop and   *)
(* the Gemini client.                                                      *)
(***************************************************************************)
EXTENDS Integers, Sequences, FiniteSets, TLC

VARIABLES
    now,               \* the wall clock, datetime.now() / time.time()
    state,             \* StateManager.state (the keys the model uses)
    file,              \* the pickled state file on disk
    tasks,             \* TaskManager.tasks: task id -> Task
    active_timers,     \* TaskManager.active_timers (its key set)
    task_callbacks,    \* TaskManager.task_callbacks
    scheduler_running, \* TaskManager.scheduler_running
    main,              \* the main thread inside the task manager's API
    poll,              \* the polling thread (_task_scheduler)
    ex,                \* per thread: its position inside _execute_task
    executions,        \* history: how often _execute_task ran for an id
    invoked,           \* history: how often _on_task_completed ran for an id
    persisted,         \* history: the task table the previous run saved
    appended,          \* history: every message given to update_conversation
    llm,               \* GeminiClient.generate_response: the call under way
    run,               \* VoiceAssistant.run: the main loop's position
    error_count,       \* VoiceAssistant.error_count
    should_stop,       \* VoiceAssistant.should_stop
    is_sleeping,       \* VoiceAssistant.is_sleeping
    current_state,     \* VoiceAssistant.current_state
    engine,            \* TTSManager.engine
    lock,              \* TTSManager._lock: the thread that holds it
    tts,               \* per thread: its position inside TTSManager
    store              \* StateManager: the last call and (history) the last set

tmVars == <<now, tasks, active_timers, task_callbacks, scheduler_running,
            main, poll, ex, executions, invoked, persisted>>

runVars == <<run, error_count, should_stop, is_sleeping, current_state>>

ttsVars == <<engine, lock, tts>>

\* What the task manager's threads leave alone.
otherVars == <<appended, llm, runVars, ttsVars, store>>

vars == <<state, file, tmVars, otherVars>>

(***************************************************************************)
(* Bounds of the model.                                                    *)
(***************************************************************************)
MaxTime == 1
MaxTasks == 1

\* Task ids are clock readings: those of the previous run are negative,
\* those of this run are 0..MaxTime.
PriorIds == {0 - i : i \in 1..MaxTasks}
Ids == PriorIds \cup 0..MaxTime
Poller == 0 - MaxTasks - 1
ExecThreads == {Poller} \cup Ids

(***************************************************************************)
(* Values: None, datetime objects and the strings isoformat() makes.       *)
(***************************************************************************)
None == [k |-> "none", v |-> 0]
Dt(n) == [k |-> "dt", v |-> n]

isoformat(d) == [k |-> "str", v |-> d.v]

fromisoformat(s) == [k |-> "dt", v |-> s.v]

EmptyTable == [i \in {} |-> None]

\* Task(id=..., type=..., content=..., scheduled_time=...)
Task(id, type, content, sched, t) ==
    [id |-> id, type |-> type, content |-> content, scheduled_time |-> sched,
     completed |-> FALSE, created_at |-> Dt(t)]

\* The contents the assistant gives a task of each type.
ContentOf(type) ==
    CASE type = "timer" -> "Timer for N seconds"
      [] type = "reminder" -> "remind me"
      [] OTHER -> "take a note"

\* StateManager.__init__: the default state.
DefaultState == [conversation_history |-> <<>>, tasks |-> EmptyTable]

\* save_tasks, lines 64-72: the dictionary handed to state_manager.set.
task_dict(task) ==
    [task EXCEPT !.scheduled_time = IF @.k = "dt" THEN isoformat(@) ELSE @,
                 !.created_at = IF @.k = "dt" THEN isoformat(@) ELSE @]

tasks_data(tbl) == [id \in DOMAIN tbl |-> task_dict(tbl[id])]

\* load_task without the conversion of lines 49-50.
load_task_unconverted(task_data) == task_data

\* load_tasks, lines 49-52: one entry of the persisted table made a Task.
load_task(task_data) ==
    [task_data EXCEPT !.scheduled_time = IF @.k = "str" THEN fromisoformat(@) ELSE @]

\* load_tasks, lines 56-58 with _schedule_task: the loaded tasks that get a
\* timer. Comparing a string with a datetime raises; the except clause of
\* load_tasks leaves such a task in the table without a timer.
load_timers(tbl, t) ==
    {id \in DOMAIN tbl :
        /\ ~tbl[id].completed
        /\ tbl[id].scheduled_time.k = "dt"
        /\ tbl[id].scheduled_time.v > t}

\* A thread outside _execute_task; n is the size of the task table when the
\* thread's save_tasks began to iterate over it, called (history) the
\* callbacks the thread has called for its task and raising the positions
\* of those that raised.
Idle ==
    [pc |-> "off", id |-> 0, snap |-> EmptyTable, n |-> 0, called |-> <<>>,
     raising |-> {}]

\* The main thread: in create_task, the task's id and the snapshot of
\* save_tasks; in stop_scheduler, the size of active_timers when the
\* iteration began and the timers still to visit; cleaned is (history) the
\* steps of cleanup that were carried out.
MainAt(pc, id) ==
    [pc |-> pc, id |-> id, snap |-> EmptyTable, n |-> 0, left |-> {},
     cleaned |-> {}]

\* The polling thread: current_time, the entries of its list still to visit,
\* the entry under test, and (history) the ids the list held at first.
PollAt(pc) == [pc |-> pc, time |-> 0, items |-> {}, cur |-> 0, listed |-> {}]

\* GeminiClient outside generate_response.
LlmIdle ==
    [pc |-> "idle", message |-> <<>>, attempt |-> 0, outcomes |-> <<>>,
     waits |-> <<>>, how |-> "none", result |-> [kind |-> "none", of |-> 0]]

\* The main loop at position pc, no command captured; outcome is (history)
\* how generate_response ended for the command, exc (history) where an
\* exception was raised in this iteration.
RunAt(pc) ==
    [pc |-> pc, command |-> {}, handler |-> "none", gen_calls |-> 0,
     outcome |-> "none", exc |-> "none", captured |-> 0, said |-> "nothing",
     steps |-> <<>>]

\* The threads that call TTSManager.speak: the main loop, and the timer
\* and polling threads through _on_task_completed.
TtsThreads == {"main", "timer", "poller"}

\* A thread at position pc of TTSManager; ret is where _setup_tts returns
\* to, recovering tells the except clause of speak from its try block, and
\* said counts the say/runAndWait attempts of the call (history).
TtsAt(pc, ret) == [pc |-> pc, ret |-> ret, recovering |-> FALSE, said |-> 0]

\* A TTSManager whose engine was set up, no thread inside it.
TtsConstructed ==
    /\ engine = "ready"
    /\ lock = "free"
    /\ tts = [th \in TtsThreads |-> TtsAt("idle", "none")]

\* The StateManager after its constructor: no get or set yet.
StoreAt(op) ==
    [op |-> op, key |-> "none", value |-> None, result |-> None,
     written |-> FALSE, at |-> 0, last |-> [key |-> "none", value |-> None]]

\* VoiceAssistant.__init__, lines 33-35 and 47-56
RunConstructed ==
    /\ run = RunAt("start")
    /\ error_count = 0
    /\ should_stop = FALSE
    /\ is_sleeping = FALSE
    /\ current_state = "idle"
    /\ TtsConstructed
    /\ store = StoreAt("init")

(***************************************************************************)
(* The task tables a previous run can have left in the state file: tasks   *)
(* created before this run started, completed only if they were scheduled  *)
(* and due.                                                                *)
(***************************************************************************)
PriorTasks(id) ==
    {[Task(id, "note", ContentOf("note"), None, id) EXCEPT !.completed = FALSE]}
    \cup {[Task(id, ty, ContentOf(ty), Dt(s), id) EXCEPT !.completed = c] :
            ty \in {"timer", "reminder"}, s \in (0 - 1)..MaxTime, c \in {FALSE}}
    \cup {[Task(id, ty, ContentOf(ty), Dt(s), id) EXCEPT !.completed = c] :
            ty \in {"timer", "reminder"}, s \in {0 - 1}, c \in {TRUE}}

PriorTables ==
    UNION {[{0 - i : i \in 1..n} -> UNION {PriorTasks(id) : id \in PriorIds}] :
             n \in 0..MaxTasks}

PersistedTables == {T \in PriorTables : \A id \in DOMAIN T : T[id].id = id}

(***************************************************************************)
(* Construction: StateManager() over the state file (load_state), then     *)
(* TaskManager() over it (load_tasks, the polling thread started). The     *)
(* assistant has not registered its callback yet.                          *)
(***************************************************************************)
Init ==
    /\ now = 0
    /\ \E T \in PersistedTables :
         /\ persisted = T
         /\ file = [DefaultState EXCEPT !.tasks = tasks_data(T)]
    /\ tasks = [id \in DOMAIN file.tasks |-> load_task(file.tasks[id])]
    /\ state = [file EXCEPT !.tasks = tasks]
    /\ active_timers = load_timers(tasks, now)
    /\ task_callbacks = <<>>
    /\ scheduler_running = TRUE
    /\ main = MainAt("init", 0)
    /\ poll = PollAt("top")
    /\ ex = [th \in ExecThreads |->
               IF th \in active_timers THEN [Idle EXCEPT !.pc = "armed", !.id = th]
               ELSE Idle]
    /\ executions = [id \in Ids |-> 0]
    /\ invoked = [id \in Ids |-> 0]
    /\ appended = <<>>
    /\ llm = LlmIdle
    /\ RunConstructed

Tick ==
    /\ now < MaxTime
    /\ now' = now + 1
    /\ UNCHANGED <<state, file, tasks, active_timers, task_callbacks,
                   scheduler_running, main, poll, ex, executions, invoked,
                   persisted, otherVars>>

(***************************************************************************)
(* The main thread: VoiceAssistant.__init__ registers the callback, then   *)
(* the commands of the main loop call create_task; cleanup stops the       *)
(* scheduler.                                                              *)
(***************************************************************************)
diskVars == <<state, file>>
histVars == <<executions, invoked, persisted, otherVars>>

\* add_task_callback(self._on_task_completed), assistant.py line 40
add_task_callback ==
    /\ main.pc = "init"
    /\ task_callbacks' = Append(task_callbacks, "_on_task_completed")
    /\ main' = MainAt("idle", 0)
    /\ UNCHANGED <<now, diskVars, tasks, active_timers, scheduler_running,
                   poll, ex, histVars>>

\* The (type, scheduled_time) pairs _create_timer, _create_reminder and
\* _create_note pass to create_task at time t.
TaskInputs(t) ==
    ({"timer"} \X {Dt(s) : s \in (t + 1)..MaxTime})
    \cup ({"reminder"} \X ({None} \cup {Dt(s) : s \in (t - 1)..MaxTime}))
    \cup ({"note"} \X {None})

\* create_task, lines 78-87: the id is the clock reading; the task enters
\* the table, in the place of a task with the same id if there is one. The
\* model has one timer thread for an id: an id whose timer thread is still
\* alive is not used again.
create_task ==
    /\ main.pc = "idle"
    /\ Cardinality(DOMAIN tasks \cup {now}) <= MaxTasks
    /\ now \in DOMAIN tasks => ex[now].pc \in {"off", "done", "died", "cancelled"}
    /\ \E inp \in TaskInputs(now) :
         LET task_id == now
             task == Task(task_id, inp[1], ContentOf(inp[1]), inp[2], now)
         IN  /\ tasks' = (task_id :> task) @@ tasks
             /\ main' = MainAt(IF inp[2].k # "none" THEN "sched" ELSE "save", task_id)
    /\ UNCHANGED <<now, diskVars, active_timers, task_callbacks, scheduler_running,
                   poll, ex, histVars>>

\* _schedule_task, lines 97-98: a task that is already due gets no timer.
schedule_check ==
    /\ main.pc = "sched"
    /\ main' = [main EXCEPT !.pc = IF tasks[main.id].scheduled_time.v <= now
                                   THEN "save" ELSE "timer"]
    /\ UNCHANGED <<now, diskVars, tasks, active_timers, task_callbacks,
                   scheduler_running, poll, ex, histVars>>

\* schedule_start without line 104: the timer is never started.
schedule_start_unstarted ==
    /\ main.pc = "timer"
    /\ active_timers' = active_timers \cup {main.id}
    /\ main' = [main EXCEPT !.pc = "save"]
    /\ UNCHANGED <<now, diskVars, tasks, task_callbacks, scheduler_running,
                   poll, ex, histVars>>

\* _schedule_task, lines 100-104: the timer is made, entered in
\* active_timers and started. A delay that has become negative fires at once.
schedule_start ==
    /\ main.pc = "timer"
    /\ active_timers' = active_timers \cup {main.id}
    /\ ex' = [ex EXCEPT ![main.id] = [Idle EXCEPT !.pc = "armed", !.id = main.id]]
    /\ main' = [main EXCEPT !.pc = "save"]
    /\ UNCHANGED <<now, diskVars, tasks, task_callbacks, scheduler_running,
                   poll, histVars>>

\* save_tasks, lines 64-72, called by create_task line 92
create_snapshot ==
    /\ main.pc = "save"
    /\ main' = [main EXCEPT !.pc = "set", !.snap = tasks_data(tasks)]
    /\ UNCHANGED <<now, diskVars, tasks, active_timers, task_callbacks,
                   scheduler_running, poll, ex, histVars>>

\* save_tasks, line 74: state_manager.set('tasks', tasks_data), which
\* writes the state file.
create_set ==
    /\ main.pc = "set"
    /\ state' = [state EXCEPT !.tasks = main.snap]
    /\ file' = state'
    /\ main' = MainAt("listen", main.id)
    /\ UNCHANGED <<now, tasks, active_timers, task_callbacks, scheduler_running,
                   poll, ex, histVars>>

\* The main loop records audio for the next wake word and command before it
\* can create another task: the clock has moved on by then.
listen_done ==
    /\ main.pc = "listen"
    /\ now > main.id
    /\ main' = MainAt("idle", 0)
    /\ UNCHANGED <<now, diskVars, tasks, active_timers, task_callbacks,
                   scheduler_running, poll, ex, histVars>>

Min(S) == CHOOSE x \in S : \A y \in S : x <= y

\* stop_scheduler, called by cleanup, lines 149-150: the flag is cleared
\* and the iteration over active_timers.values() begins.
stop_scheduler ==
    /\ main.pc = "idle"
    /\ scheduler_running' = FALSE
    /\ main' = [MainAt("cancel", 0) EXCEPT !.n = Cardinality(active_timers),
                                           !.left = active_timers]
    /\ UNCHANGED <<now, diskVars, tasks, active_timers, task_callbacks, poll,
                   ex, histVars>>

\* lines 150-151: one step of the iteration. If a timer thread has deleted
\* its entry since the iteration began, the step raises RuntimeError
\* (dictionary changed size during iteration); otherwise the next timer is
\* cancelled, which stops it unless it has fired, or the iteration ends and
\* stop_scheduler returns.
stop_cancel ==
    /\ main.pc = "cancel"
    /\ IF Cardinality(active_timers) # main.n
       THEN /\ main' = MainAt("raised", 0)
            /\ ex' = ex
       ELSE IF main.left = {}
       THEN /\ main' = MainAt("stopped", 0)
            /\ ex' = ex
       ELSE /\ main' = [main EXCEPT !.left = @ \ {Min(main.left)}]
            /\ ex' = [ex EXCEPT ![Min(main.left)].pc =
                                   IF @ = "armed" THEN "cancelled" ELSE @]
    /\ UNCHANGED <<now, diskVars, tasks, active_timers, task_callbacks,
                   scheduler_running, poll, histVars>>

\* The steps of cleanup, assistant.py lines 411-415.
CleanupSteps == {"stop_scheduler", "audio", "tts", "save_state", "loop"}

\* cleanup, assistant.py lines 412-416, after stop_scheduler has returned:
\* the audio and the TTS engine are released, save_state writes the state
\* file, or fails and logs it, and the event loop is closed.
cleanup_rest ==
    /\ main.pc = "stopped"
    /\ \E written \in BOOLEAN : file' = IF written THEN state ELSE file
    /\ main' = [MainAt("exit", 0) EXCEPT !.cleaned = CleanupSteps]
    /\ UNCHANGED <<now, state, tasks, active_timers, task_callbacks,
                   scheduler_running, poll, ex, histVars>>

\* cleanup, assistant.py lines 417-418: an exception of stop_scheduler is
\* logged and cleanup returns.
cleanup_except ==
    /\ main.pc = "raised"
    /\ main' = MainAt("exit", 0)
    /\ UNCHANGED <<now, diskVars, tasks, active_timers, task_callbacks,
                   scheduler_running, poll, ex, histVars>>

(***************************************************************************)
(* The polling thread, _task_scheduler.                                    *)
(***************************************************************************)
\* lines 128-133: the loop test, current_time = datetime.now() and
\* list(self.tasks.items())
poll_top ==
    /\ poll.pc = "top"
    /\ poll' = IF scheduler_running
               THEN [PollAt("next") EXCEPT !.time = now, !.items = DOMAIN tasks,
                                           !.listed = DOMAIN tasks]
               ELSE PollAt("exit")
    /\ UNCHANGED <<now, diskVars, tasks, active_timers, task_callbacks,
                   scheduler_running, main, ex, histVars>>

\* lines 133-136: the next entry of the list, in insertion order, and the
\* first three conjuncts of the test. A scheduled_time that is a string
\* makes the comparison raise: line 143 catches it and the pass ends. At the
\* end of the list the thread sleeps (lines 141, 145) and starts over.
poll_next ==
    /\ poll.pc = "next"
    /\ IF poll.items = {}
       THEN poll' = PollAt("top")
       ELSE LET cur == Min(poll.items)
                task == tasks[cur]
                rest == [poll EXCEPT !.items = @ \ {cur}]
            IN  poll' =
                  IF task.completed \/ task.scheduled_time.k = "none"
                  THEN rest
                  ELSE IF task.scheduled_time.k = "str"
                  THEN PollAt("top")
                  ELSE IF task.scheduled_time.v <= poll.time
                  THEN [rest EXCEPT !.pc = "chk", !.cur = cur]
                  ELSE rest
    /\ UNCHANGED <<now, diskVars, tasks, active_timers, task_callbacks,
                   scheduler_running, main, ex, histVars>>

\* lines 137-139: the test on active_timers and the call of _execute_task
poll_chk ==
    /\ poll.pc = "chk"
    /\ IF poll.cur \notin active_timers
       THEN /\ poll' = [poll EXCEPT !.pc = "exec"]
            /\ ex' = [ex EXCEPT ![Poller] = [Idle EXCEPT !.pc = "mark", !.id = poll.cur]]
       ELSE /\ poll' = [poll EXCEPT !.pc = "next", !.cur = 0]
            /\ ex' = ex
    /\ UNCHANGED <<now, diskVars, tasks, active_timers, task_callbacks,
                   scheduler_running, main, histVars>>

(***************************************************************************)
(* _execute_task, run by a timer thread (th is the task id) or by the      *)
(* polling thread.                                                         *)
(***************************************************************************)
\* A timer that fires without waiting for its delay.
timer_fire_early(th) ==
    /\ ex[th].pc = "armed"
    /\ ex' = [ex EXCEPT ![th].pc = "mark"]
    /\ UNCHANGED <<now, diskVars, tasks, active_timers, task_callbacks,
                   scheduler_running, main, poll, histVars>>

\* threading.Timer: the delay has passed
timer_fire(th) ==
    /\ ex[th].pc = "armed"
    /\ now >= tasks[th].scheduled_time.v
    /\ ex' = [ex EXCEPT ![th].pc = "mark"]
    /\ UNCHANGED <<now, diskVars, tasks, active_timers, task_callbacks,
                   scheduler_running, main, poll, histVars>>

\* The loop of line 115 without the try of lines 116-119: the first
\* exception ends it.
notified_until_raise(callbacks, raising) ==
    IF raising = {} THEN Len(callbacks) ELSE Min(raising)

\* The callbacks _execute_task calls for a task, lines 115-119, when those
\* at the positions in raising raise: every registered callback, once, in
\* the order of the list; an exception of one is logged and the loop goes on.
notified(callbacks, raising) == Len(callbacks)

\* _on_task_completed, assistant.py lines 72-81, with speak, lines 64-70: for
\* a TIMER or REMINDER task the assistant's callback speaks, which leaves
\* current_state IDLE, unless it raises before (play_wav_file, line 78).
after_callbacks(cs, task, callbacks, raising) ==
    IF /\ task.type \in {"timer", "reminder"}
       /\ \E i \in 1..notified(callbacks, raising) :
            callbacks[i] = "_on_task_completed" /\ i \notin raising
    THEN "idle"
    ELSE cs

\* lines 110-119: the task is marked completed and the callbacks are called;
\* line 121: save_tasks starts to iterate over the task table.
execute_mark(th) ==
    /\ ex[th].pc = "mark"
    /\ IF ex[th].id \in DOMAIN tasks
       THEN /\ tasks' = [tasks EXCEPT ![ex[th].id].completed = TRUE]
            /\ executions' = [executions EXCEPT ![ex[th].id] = @ + 1]
            /\ \E raising \in SUBSET (1..Len(task_callbacks)) :
                 LET n == notified(task_callbacks, raising)
                 IN  /\ invoked' = [invoked EXCEPT ![ex[th].id] = @ + n]
                     /\ ex' = [ex EXCEPT
                                 ![th].pc = "snap",
                                 ![th].n = Cardinality(DOMAIN tasks),
                                 ![th].called = SubSeq(task_callbacks, 1, n),
                                 ![th].raising = raising]
                     /\ current_state' =
                           after_callbacks(current_state, tasks[ex[th].id],
                                           task_callbacks, raising)
       ELSE /\ ex' = [ex EXCEPT ![th].pc = "del"]
            /\ UNCHANGED <<tasks, executions, invoked, current_state>>
    /\ UNCHANGED <<now, diskVars, active_timers, task_callbacks,
                   scheduler_running, main, poll, persisted, appended, llm,
                   run, error_count, should_stop, is_sleeping, ttsVars, store>>

\* save_tasks lines 64-72. A task that create_task inserted since the
\* iteration began makes it raise RuntimeError (dictionary changed size
\* during iteration): a timer thread dies of it, before lines 121-124; the
\* polling thread catches it at line 143 and starts a new pass.
execute_snapshot(th) ==
    /\ ex[th].pc = "snap"
    /\ IF Cardinality(DOMAIN tasks) = ex[th].n
       THEN /\ ex' = [ex EXCEPT ![th].pc = "set", ![th].snap = tasks_data(tasks)]
            /\ poll' = poll
       ELSE IF th = Poller
       THEN /\ ex' = [ex EXCEPT ![th] = Idle]
            /\ poll' = PollAt("top")
       ELSE /\ ex' = [ex EXCEPT ![th] = [Idle EXCEPT !.pc = "died", !.id = th]]
            /\ poll' = poll
    /\ UNCHANGED <<now, diskVars, tasks, active_timers, task_callbacks,
                   scheduler_running, main, histVars>>

\* line 121, save_tasks line 74, and lines 123-124; then the timer thread
\* ends, the polling thread goes on with the next entry of its list.
execute_set(th) ==
    /\ ex[th].pc \in {"set", "del"}
    /\ IF ex[th].pc = "set"
       THEN /\ state' = [state EXCEPT !.tasks = ex[th].snap]
            /\ file' = state'
       ELSE UNCHANGED diskVars
    /\ active_timers' = active_timers \ {ex[th].id}
    /\ IF th = Poller
       THEN /\ ex' = [ex EXCEPT ![th] = Idle]
            /\ poll' = [poll EXCEPT !.pc = "next", !.cur = 0]
       ELSE /\ ex' = [ex EXCEPT ![th] = [Idle EXCEPT !.pc = "done", !.id = th,
                                                      !.called = ex[th].called,
                                                      !.raising = ex[th].raising]]
            /\ poll' = poll
    /\ UNCHANGED <<now, tasks, task_callbacks, scheduler_running, main, histVars>>

MainStep ==
    \/ add_task_callback
    \/ create_task
    \/ schedule_check
    \/ schedule_start
    \/ create_snapshot
    \/ create_set
    \/ listen_done

PollStep ==
    \/ poll_top
    \/ poll_next
    \/ poll_chk

ExecStep(th) ==
    \/ timer_fire(th)
    \/ execute_mark(th)
    \/ execute_snapshot(th)
    \/ execute_set(th)

Next ==
    \/ Tick
    \/ MainStep
    \/ stop_scheduler
    \/ stop_cancel
    \/ cleanup_rest
    \/ cleanup_except
    \/ PollStep
    \/ \E th \in ExecThreads : ExecStep(th)

Spec == Init /\ [][Next]_vars

\* The steps the interpreter's thread scheduling and the clock guarantee: a
\* thread that can run does run. What the user asks for, and when the
\* assistant is shut down, is not forced.
MainProgress ==
    \/ add_task_callback
    \/ schedule_check
    \/ schedule_start
    \/ create_snapshot
    \/ create_set

Fairness ==
    /\ WF_vars(Tick)
    /\ WF_vars(MainProgress)
    /\ WF_vars(PollStep)
    /\ \A th \in ExecThreads : WF_vars(ExecStep(th))

FairSpec == Spec /\ Fairness

(***************************************************************************)
(* The task manager's claims.                                              *)
(***************************************************************************)

\* C1: for every task, _execute_task runs at most once, so the completion
\* callback is invoked at most once for it, whatever the interleaving of
\* its timer thread and the polling thread.
C1_ExecutedAtMostOnce ==
    \A id \in Ids : executions[id] <= 1 /\ invoked[id] <= 1

\* A task of this run that has a scheduled time is completed and its
\* callbacks have been called.
Settled(id) ==
    id \in DOMAIN tasks /\ tasks[id].completed /\ invoked[id] >= 1

\* At the end of a polling pass every task the pass listed that was due at
\* its start and has no timer is completed.
PolledWithinOnePass ==
    (poll.pc = "next" /\ poll.items = {}) =>
        \A id \in poll.listed :
            (/\ tasks[id].scheduled_time.k = "dt"
             /\ tasks[id].scheduled_time.v <= poll.time
             /\ id \notin active_timers) => tasks[id].completed

\* C2: while the scheduler is running, every task create_task made with a
\* scheduled time is eventually completed with the completion callbacks
\* called, and a due task without a timer is completed within the polling
\* pass that lists it.
C2_ScheduledTaskCompletes ==
    /\ \A id \in 0..MaxTime :
         (id \in DOMAIN tasks /\ tasks[id].scheduled_time.k = "dt")
            ~> (~scheduler_running \/ Settled(id))
    /\ []PolledWithinOnePass

\* A task of this run was completed by its timer thread and the callback
\* was called for it.
C2_Witness ==
    \E id \in 0..MaxTime :
        Settled(id) /\ ex[id].pc = "done" /\ scheduler_running

\* C3: whenever the scheduler has marked a TIMER or REMINDER task completed,
\* _on_task_completed has been called for that task, also for a task loaded
\* at start-up that is due before the assistant registers the callback.
C3_CallbackInvoked ==
    \A id \in DOMAIN tasks :
        (tasks[id].type \in {"timer", "reminder"} /\ executions[id] > 0)
            => invoked[id] >= executions[id]

\* The five fields of a task that a restart keeps.
SameTask(t, p) ==
    /\ t.id = p.id
    /\ t.type = p.type
    /\ t.content = p.content
    /\ t.scheduled_time = p.scheduled_time

Overdue(p) == ~p.completed /\ p.scheduled_time.k = "dt" /\ p.scheduled_time.v <= 0

Future(p) == ~p.completed /\ p.scheduled_time.k = "dt" /\ p.scheduled_time.v > 0

\* The task table holds exactly the persisted tasks, unchanged but for the
\* completed flag of a task executed since; a future task has a timer, an
\* overdue one none, and a completed one is not executed.
TableRestored ==
    /\ DOMAIN tasks \cap PriorIds = DOMAIN persisted
    /\ \A id \in DOMAIN persisted :
         /\ SameTask(tasks[id], persisted[id])
         /\ tasks[id].completed = (persisted[id].completed \/ executions[id] > 0)
         /\ Future(persisted[id]) => ex[id].pc # "off"
         /\ ~Future(persisted[id]) => ex[id].pc = "off"
         /\ persisted[id].completed => executions[id] = 0

\* C4: after a restart the task table holds exactly the persisted tasks
\* with the same id, type, content, scheduled_time and completed flag; an
\* uncompleted future task gets a timer, an uncompleted overdue task is
\* executed by the polling thread, a completed task is not executed again.
C4_RestartRestoresTasks ==
    /\ []TableRestored
    /\ \A id \in PriorIds :
         (id \in DOMAIN persisted /\ Overdue(persisted[id]))
            ~> (~scheduler_running \/ executions[id] >= 1)

\* An overdue task of the previous run has been executed by the polling
\* thread, which has finished with it.
C4_Witness ==
    \E id \in DOMAIN persisted :
        /\ Overdue(persisted[id])
        /\ executions[id] = 1
        /\ tasks[id].completed
        /\ ex[Poller].pc = "off"

\* Neither create_task nor _execute_task is under way in any thread.
Quiescent ==
    /\ main.pc \in {"init", "idle", "listen", "stopped", "exit"}
    /\ \A th \in ExecThreads : ex[th].pc \in {"off", "armed", "done", "cancelled"}

\* C5: once create_task and _execute_task have both finished, the 'tasks'
\* entry of the state manager holds every task of the table with its final
\* completed flag.
C5_NoLostUpdate ==
    Quiescent =>
        \A id \in DOMAIN tasks :
            /\ id \in DOMAIN state.tasks
            /\ state.tasks[id].completed = tasks[id].completed

(***************************************************************************)
(* The state manager's conversation history.                               *)
(***************************************************************************)
\* update_conversation, line 72: the length above which the history is cut
HISTORY_LIMIT == 50
\* update_conversation, line 73: the number of messages the cut keeps
HISTORY_KEEP == 50

MaxAppends == 60

\* asdict(ConversationMessage(role=..., content=...))
ConversationMessage(role, content) == [role |-> role, content |-> content]

\* The cut of line 73 taken from the front of the list instead.
keep_oldest(history) ==
    IF Len(history) > HISTORY_LIMIT
    THEN SubSeq(history, 1, HISTORY_KEEP)
    ELSE history

\* update_conversation, lines 71-73: history[-50:] once it is longer than 50
keep_last(history) ==
    IF Len(history) > HISTORY_LIMIT
    THEN SubSeq(history, Len(history) - HISTORY_KEEP + 1, Len(history))
    ELSE history

\* update_conversation, lines 66-73: the state after the message is appended
with_message(st, message) ==
    [st EXCEPT !.conversation_history = keep_last(Append(@, message))]

\* What the state manager's operations leave alone.
tmIdle == <<tmVars, llm, runVars, ttsVars, store>>

\* StateManager() over no state file, the other components at rest.
InitState ==
    /\ state = DefaultState
    /\ file = DefaultState
    /\ appended = <<>>
    /\ now = 0
    /\ persisted = EmptyTable
    /\ tasks = EmptyTable
    /\ active_timers = {}
    /\ task_callbacks = <<>>
    /\ scheduler_running = TRUE
    /\ main = MainAt("init", 0)
    /\ poll = PollAt("top")
    /\ ex = [th \in ExecThreads |-> Idle]
    /\ executions = [id \in Ids |-> 0]
    /\ invoked = [id \in Ids |-> 0]
    /\ llm = LlmIdle
    /\ RunConstructed

\* update_conversation(message): the messages are numbered in the order of
\* the calls, a user message and the model's answer in turn. save_state,
\* lines 45-53, writes the whole state, or fails and logs it.
update_conversation ==
    /\ Len(appended) < MaxAppends
    /\ LET n == Len(appended) + 1
           message == ConversationMessage(IF n % 2 = 1 THEN "user" ELSE "model", n)
       IN  /\ state' = with_message(state, message)
           /\ appended' = Append(appended, message)
    /\ \E written \in BOOLEAN : file' = IF written THEN state' ELSE file
    /\ UNCHANGED tmIdle

NextState == update_conversation

SpecState == InitState /\ [][NextState]_vars

\* C6: after any sequence of update_conversation calls the history holds at
\* most 50 messages, and they are the most recently appended ones in their
\* original order.
C6_HistoryIsLast50 ==
    LET h == state.conversation_history
        n == Len(appended)
    IN  /\ Len(h) <= 50
        /\ Len(h) = IF n <= 50 THEN n ELSE 50
        /\ h = SubSeq(appended, n - Len(h) + 1, n)

\* More than 50 messages were appended and the history holds the last 50.
C6_Witness ==
    /\ Len(appended) > 50
    /\ Len(state.conversation_history) = 50
    /\ state.conversation_history[1].content = Len(appended) - 49

(***************************************************************************)
(* GeminiClient.generate_response.                                         *)
(***************************************************************************)
\* constants.py
MAX_RETRIES == 3
ERROR_RETRY_DELAY == 1

MaxWords == 3

\* The words of a message, lower case (line 68, line 72).
Words == {"weather", "temperature", "in", "paris", "hello"}

\* The words in which a weather keyword of line 69 occurs.
WeatherWords == {"weather", "temperature"}

Messages == UNION {[1..n -> Words] : n \in 1..MaxWords}

\* line 70: any(keyword in message_lower for keyword in weather_keywords)
is_weather_query(message) == \E i \in 1..Len(message) : message[i] \in WeatherWords

\* The index of "in" itself taken for the index of the city.
city_index_unshifted(message) ==
    CHOOSE i \in 1..Len(message) :
        message[i] = "in" /\ \A j \in 1..(i - 1) : message[j] # "in"

\* lines 75-76: words.index("in") + 1
city_index(message) ==
    (CHOOSE i \in 1..Len(message) :
        message[i] = "in" /\ \A j \in 1..(i - 1) : message[j] # "in") + 1

\* lines 70-79: the message is answered by get_weather
asks_weather(message) ==
    /\ is_weather_query(message)
    /\ \E i \in 1..Len(message) : message[i] = "in"
    /\ city_index(message) <= Len(message)

\* The three responses of _get_fallback_response, by index.
Fallbacks == 0..2

\* The delay of line 95 without the factor attempt + 1.
retry_wait_flat(attempt) == ERROR_RETRY_DELAY

\* line 95: asyncio.sleep(retry_delay * (attempt + 1))
retry_wait(attempt) == ERROR_RETRY_DELAY * (attempt + 1)

llmIdle == <<state, file, tmVars, appended, runVars, ttsVars, store>>

InitLlm ==
    /\ state = DefaultState
    /\ file = DefaultState
    /\ appended = <<>>
    /\ now = 0
    /\ persisted = EmptyTable
    /\ tasks = EmptyTable
    /\ active_timers = {}
    /\ task_callbacks = <<>>
    /\ scheduler_running = TRUE
    /\ main = MainAt("init", 0)
    /\ poll = PollAt("top")
    /\ ex = [th \in ExecThreads |-> Idle]
    /\ executions = [id \in Ids |-> 0]
    /\ invoked = [id \in Ids |-> 0]
    /\ llm = LlmIdle
    /\ RunConstructed

\* generate_response(message), lines 64-83: a weather query with a city
\* goes to get_weather, anything else to the chat session.
generate_response ==
    /\ llm.pc = "idle"
    /\ \E message \in Messages :
         llm' = [LlmIdle EXCEPT !.message = message,
                                !.pc = IF asks_weather(message) THEN "weather" ELSE "send"]
    /\ UNCHANGED llmIdle

\* get_weather, lines 35-60: no API key, status 200, another status or an
\* exception of the request; each returns a string.
get_weather ==
    /\ llm.pc = "weather"
    /\ \E how \in {"no key", "status 200", "other status", "exception"} :
         llm' = [llm EXCEPT !.pc = "done", !.how = how,
                            !.result = [kind |-> "weather", of |-> city_index(llm.message)]]
    /\ UNCHANGED llmIdle

\* lines 85-103: one pass of the retry loop. send_message returns the
\* response, whose text is returned, or raises: then the coroutine sleeps
\* and goes on to make a new chat session, or after the last attempt
\* returns a fallback response, chosen by hash(message).
send_message ==
    /\ llm.pc = "send"
    /\ \E sent \in BOOLEAN, fallback \in Fallbacks :
         LET tried == [llm EXCEPT !.outcomes = Append(@, sent)]
         IN  llm' =
               IF sent
               THEN [tried EXCEPT !.pc = "done",
                                  !.result = [kind |-> "text", of |-> llm.attempt]]
               ELSE IF llm.attempt < MAX_RETRIES - 1
               THEN [tried EXCEPT !.pc = "recreate",
                                  !.waits = Append(@, retry_wait(llm.attempt))]
               ELSE [tried EXCEPT !.pc = "done",
                                  !.result = [kind |-> "fallback", of |-> fallback]]
    /\ UNCHANGED llmIdle

\* lines 97-101: the chat session is made anew and the loop continues; an
\* exception of chats.create leaves generate_response.
recreate_chat ==
    /\ llm.pc = "recreate"
    /\ \E created \in BOOLEAN :
         llm' = IF created
                THEN [llm EXCEPT !.pc = "send", !.attempt = @ + 1]
                ELSE [llm EXCEPT !.pc = "done", !.result = [kind |-> "raised", of |-> 0]]
    /\ UNCHANGED llmIdle

\* The caller has the result.
response_returned ==
    /\ llm.pc = "done"
    /\ llm' = LlmIdle
    /\ UNCHANGED llmIdle

NextLlm ==
    \/ generate_response
    \/ get_weather
    \/ send_message
    \/ recreate_chat
    \/ response_returned

SpecLlm == InitLlm /\ [][NextLlm]_vars

\* The number of failed sends among the outcomes.
Failures(outcomes) == Cardinality({i \in 1..Len(outcomes) : ~outcomes[i]})

\* C10: for a message that is not answered by get_weather, generate_response
\* sends at most 3 times, only after a failed send sends again, returns the
\* text of the first successful send, waits 1 and then 2 between failed
\* attempts, and after the third failed send returns one of the three
\* fallback responses.
C10_RetryThenFallback ==
    LET o == llm.outcomes
        w == llm.waits
    IN  /\ Len(o) <= 3
        /\ \A i \in 1..(Len(o) - 1) : ~o[i]
        /\ w = SubSeq(<<1, 2>>, 1, Len(w))
        /\ llm.pc = "send" => Len(w) = Len(o)
        /\ (llm.pc = "done" /\ llm.result.kind = "text") =>
              /\ o[Len(o)]
              /\ llm.result.of = Len(o) - 1
              /\ Len(w) = Len(o) - 1
        /\ (llm.pc = "done" /\ Failures(o) = 3) =>
              /\ llm.result.kind = "fallback"
              /\ llm.result.of \in 0..2
              /\ w = <<1, 2>>
        /\ llm.result.kind = "fallback" => Failures(o) = 3

\* Three sends failed, with waits of 1 and 2 between them, and a fallback
\* response is returned.
C10_Witness ==
    /\ llm.pc = "done"
    /\ llm.result.kind = "fallback"
    /\ llm.outcomes = <<FALSE, FALSE, FALSE>>
    /\ llm.waits = <<1, 2>>
    /\ ~asks_weather(llm.message)

(***************************************************************************)
(* VoiceAssistant.run, the main loop, with listen_for_wake_word,           *)
(* listen_for_command, process_command and _handle_task_commands.          *)
(***************************************************************************)
\* constants.py
MAX_ERRORS == 5

MaxPhrases == 2
MaxCommands == 2
MaxErrorCount == 6

\* The phrase lists of _handle_task_commands, lines 219-236, and of run,
\* line 381.
SLEEP_PHRASES == {"sleep", "okay for now", "goodbye for now"}
TIMER_PHRASES == {"timer", "set timer", "countdown"}
REMINDER_PHRASES == {"remind", "reminder", "remember to"}
NOTE_PHRASES == {"note", "write down", "save this"}
LIST_PHRASES == {"list tasks", "show tasks", "my tasks"}
STOP_PHRASES == {"goodbye", "bye", "stop", "exit"}

\* What the user says in a command, lower case: a command is a set of these.
Utterances ==
    {"sleep", "goodbye for now", "set timer", "remind", "note", "list tasks",
     "stop", "hello"}

Commands == {c \in SUBSET Utterances : Cardinality(c) \in 1..MaxPhrases}

\* The listed phrases that are substrings of an utterance.
Contained(u) ==
    CASE u = "goodbye for now" -> {"goodbye for now", "goodbye", "bye"}
      [] u = "set timer" -> {"set timer", "timer"}
      [] u = "hello" -> {}
      [] OTHER -> {u}

\* any(phrase in command_lower for phrase in phrases)
any_in(command, phrases) ==
    \E u \in command : Contained(u) \cap phrases # {}

\* _handle_task_commands with the timer test before the sleep test.
handle_task_commands_timer_first(command) ==
    IF any_in(command, TIMER_PHRASES) THEN "timer"
    ELSE IF any_in(command, SLEEP_PHRASES) THEN "sleep"
    ELSE IF any_in(command, REMINDER_PHRASES) THEN "reminder"
    ELSE IF any_in(command, NOTE_PHRASES) THEN "note"
    ELSE IF any_in(command, LIST_PHRASES) THEN "list"
    ELSE "none"

\* _handle_task_commands, lines 216-239: the handler that answers the
\* command, "none" where the method returns None.
handle_task_commands(command) ==
    IF any_in(command, SLEEP_PHRASES) THEN "sleep"
    ELSE IF any_in(command, TIMER_PHRASES) THEN "timer"
    ELSE IF any_in(command, REMINDER_PHRASES) THEN "reminder"
    ELSE IF any_in(command, NOTE_PHRASES) THEN "note"
    ELSE IF any_in(command, LIST_PHRASES) THEN "list"
    ELSE "none"

\* run with the command captured whether or not a wake word was heard.
after_wake_unguarded(heard, sleeping) == "yes"

\* run, lines 369-387: where the loop goes after listen_for_wake_word
after_wake(heard, sleeping) ==
    IF heard THEN "yes"
    ELSE IF sleeping THEN "loop"
    ELSE "errcheck"

runIdle == <<tmVars, llm, ttsVars, store>>

InitRun ==
    /\ state = DefaultState
    /\ file = DefaultState
    /\ appended = <<>>
    /\ now = 0
    /\ persisted = EmptyTable
    /\ tasks = EmptyTable
    /\ active_timers = {}
    /\ task_callbacks = <<>>
    /\ scheduler_running = TRUE
    /\ main = MainAt("init", 0)
    /\ poll = PollAt("top")
    /\ ex = [th \in ExecThreads |-> Idle]
    /\ executions = [id \in Ids |-> 0]
    /\ invoked = [id \in Ids |-> 0]
    /\ llm = LlmIdle
    /\ RunConstructed

\* state_manager.update_conversation(message) as process_command calls it
conversation_updated(message) ==
    /\ state' = with_message(state, message)
    /\ file' = state'
    /\ appended' = Append(appended, message)

\* line 364: speak("Voice assistant initialized and ready.")
run_start ==
    /\ run.pc = "start"
    /\ run' = [run EXCEPT !.pc = "loop", !.said = "ready"]
    /\ current_state' = "idle"
    /\ UNCHANGED <<state, file, appended, error_count, should_stop, is_sleeping, runIdle>>

\* line 366: while not self.should_stop
loop_test ==
    /\ run.pc = "loop"
    /\ run' = [RunAt(IF should_stop THEN "cleanup" ELSE "wake")
                 EXCEPT !.captured = run.captured, !.said = run.said]
    /\ UNCHANGED <<state, file, appended, error_count, should_stop, is_sleeping,
                   current_state, runIdle>>

\* The functions without their finally clauses: an exception leaves
\* current_state as it was.
left_state_no_finally(cs, raised) == IF raised THEN cs ELSE "idle"

\* The finally clauses of lines 131-132, 177-178 and 211-212: the function
\* leaves current_state IDLE whether it returns or has raised.
left_state(cs, raised) == "idle"

\* listen_for_wake_word, line 86
wake_enter ==
    /\ run.pc = "wake"
    /\ current_state' = "listening"
    /\ run' = [run EXCEPT !.pc = "wake_rec"]
    /\ UNCHANGED <<state, file, appended, error_count, should_stop, is_sleeping, runIdle>>

\* listen_for_wake_word, lines 89-132: a wake word is heard, or none, or an
\* exception is counted; then run, lines 369 and 386.
listen_for_wake_word ==
    /\ run.pc = "wake_rec"
    /\ \E outcome \in {"heard", "nothing", "error"} :
         /\ outcome = "error" => error_count < MaxErrorCount
         /\ error_count' = IF outcome = "error" THEN error_count + 1 ELSE error_count
         /\ run' = [run EXCEPT
                      !.pc = after_wake(outcome = "heard", is_sleeping),
                      !.exc = IF outcome = "error" THEN "listen_for_wake_word" ELSE @,
                      !.steps = Append(@, IF outcome = "heard" THEN "wake" ELSE "no wake")]
         /\ current_state' = left_state(current_state, outcome = "error")
    /\ UNCHANGED <<state, file, appended, should_stop, is_sleeping, runIdle>>

\* lines 370-371: the assistant wakes up and says "Yes?"
say_yes ==
    /\ run.pc = "yes"
    /\ is_sleeping' = FALSE
    /\ run' = [run EXCEPT !.pc = "cmd", !.said = "yes"]
    /\ current_state' = "idle"
    /\ UNCHANGED <<state, file, appended, error_count, should_stop, runIdle>>

\* listen_for_command, line 137
command_enter ==
    /\ run.pc = "cmd"
    /\ current_state' = "listening"
    /\ run' = [run EXCEPT !.pc = "cmd_rec"]
    /\ UNCHANGED <<state, file, appended, error_count, should_stop, is_sleeping, runIdle>>

\* listen_for_command, lines 141-178: a command is recognised, or none, or
\* an exception is counted; then run, line 375.
listen_for_command ==
    /\ run.pc = "cmd_rec"
    /\ \/ /\ run.captured < MaxCommands
          /\ \E command \in Commands :
               run' = [run EXCEPT !.pc = "process", !.command = command,
                                  !.captured = @ + 1,
                                  !.steps = Append(@, "command")]
          /\ error_count' = error_count
          /\ current_state' = left_state(current_state, FALSE)
       \/ \E failed \in BOOLEAN :
            /\ failed => error_count < MaxErrorCount
            /\ error_count' = IF failed THEN error_count + 1 ELSE error_count
            /\ run' = [run EXCEPT !.pc = "errcheck",
                                  !.exc = IF failed THEN "listen_for_command" ELSE @,
                                  !.steps = Append(@, "no command")]
            /\ current_state' = left_state(current_state, failed)
    /\ UNCHANGED <<state, file, appended, should_stop, is_sleeping, runIdle>>

\* process_command with the handlers tried before the command joins the
\* history, which it then does only if none of them answers.
process_command_routed_first ==
    /\ run.pc = "process"
    /\ IF handle_task_commands(run.command) = "none"
       THEN conversation_updated(ConversationMessage("user", run.captured))
       ELSE UNCHANGED <<state, file, appended>>
    /\ LET handler == handle_task_commands(run.command)
           called == [run EXCEPT !.handler = handler,
                                 !.steps = Append(@, "process")]
           back == [called EXCEPT !.pc = "respond",
                                  !.steps = Append(@, "response")]
       IN  IF handler = "none"
           THEN /\ run' = [called EXCEPT !.pc = "llm", !.gen_calls = @ + 1]
                /\ current_state' = "processing"
                /\ UNCHANGED <<error_count, is_sleeping>>
           ELSE /\ is_sleeping' = (is_sleeping \/ handler = "sleep")
                /\ \E raised \in BOOLEAN :
                     /\ raised => (handler = "timer" /\ error_count < MaxErrorCount)
                     /\ error_count' = IF raised THEN error_count + 1 ELSE error_count
                     /\ current_state' = left_state("processing", raised)
                     /\ run' = [back EXCEPT
                                  !.exc = IF raised THEN "process_command" ELSE @]
    /\ UNCHANGED <<should_stop, runIdle>>

\* process_command, lines 183-192 and 207-212: the command joins the
\* history and is offered to the local handlers. The sleep handler sets
\* is_sleeping; _create_timer can raise (a duration timedelta cannot hold),
\* which is counted; with no handler the Gemini client is called.
process_command ==
    /\ run.pc = "process"
    /\ conversation_updated(ConversationMessage("user", run.captured))
    /\ LET handler == handle_task_commands(run.command)
           called == [run EXCEPT !.handler = handler,
                                 !.steps = Append(@, "process")]
           back == [called EXCEPT !.pc = "respond",
                                  !.steps = Append(@, "response")]
       IN  IF handler = "none"
           THEN /\ run' = [called EXCEPT !.pc = "llm", !.gen_calls = @ + 1]
                /\ current_state' = "processing"
                /\ UNCHANGED <<error_count, is_sleeping>>
           ELSE /\ is_sleeping' = (is_sleeping \/ handler = "sleep")
                /\ \E raised \in BOOLEAN :
                     /\ raised => (handler = "timer" /\ error_count < MaxErrorCount)
                     /\ error_count' = IF raised THEN error_count + 1 ELSE error_count
                     /\ current_state' = left_state("processing", raised)
                     /\ run' = [back EXCEPT
                                  !.exc = IF raised THEN "process_command" ELSE @]
    /\ UNCHANGED <<should_stop, runIdle>>

\* The exception of line 377 leaving run through its finally clause.
loop_except_propagated ==
    /\ run.pc = "process"
    /\ error_count < MaxErrorCount
    /\ error_count' = error_count + 1
    /\ run' = [run EXCEPT !.pc = "cleanup", !.exc = "run"]
    /\ UNCHANGED <<state, file, appended, should_stop, is_sleeping,
                   current_state, runIdle>>

\* run, lines 377 and 398-401: run_until_complete raises before the
\* coroutine of process_command has run (the event loop is closed or is
\* running already); the exception is logged and counted, and after a
\* second the loop goes on at line 366.
loop_except ==
    /\ run.pc = "process"
    /\ error_count < MaxErrorCount
    /\ error_count' = error_count + 1
    /\ run' = [run EXCEPT !.pc = "loop", !.exc = "run"]
    /\ UNCHANGED <<state, file, appended, should_stop, is_sleeping,
                   current_state, runIdle>>

\* process_command, lines 196-212: generate_response returns a text or a
\* fallback response, which joins the history and resets error_count, or
\* raises, which is counted.
response_generated ==
    /\ run.pc = "llm"
    /\ \E outcome \in {"text", "fallback", "raised"} :
         /\ IF outcome = "raised"
            THEN /\ error_count < MaxErrorCount
                 /\ error_count' = error_count + 1
                 /\ UNCHANGED <<state, file, appended>>
            ELSE /\ error_count' = 0
                 /\ conversation_updated(ConversationMessage("model", run.captured))
         /\ run' = [run EXCEPT !.pc = "respond", !.outcome = outcome,
                               !.exc = IF outcome = "raised" THEN "process_command" ELSE @,
                               !.steps = Append(@, "response")]
         /\ current_state' = left_state(current_state, outcome = "raised")
    /\ UNCHANGED <<should_stop, is_sleeping, runIdle>>

\* line 378: speak(response)
speak_response ==
    /\ run.pc = "respond"
    /\ run' = [run EXCEPT !.pc = "endcheck", !.said = "response",
                          !.steps = Append(@, "speak")]
    /\ current_state' = "idle"
    /\ UNCHANGED <<state, file, appended, error_count, should_stop, is_sleeping, runIdle>>

\* The farewell of line 382 without the assignment of line 383.
end_check_unset ==
    /\ run.pc = "endcheck"
    /\ run' = [run EXCEPT !.pc = "errcheck",
                          !.said = IF any_in(run.command, STOP_PHRASES)
                                   THEN "goodbye" ELSE @]
    /\ UNCHANGED <<state, file, appended, error_count, should_stop, is_sleeping,
                   current_state, runIdle>>

\* lines 381-383: a command with a stop phrase ends the conversation
end_check ==
    /\ run.pc = "endcheck"
    /\ IF any_in(run.command, STOP_PHRASES)
       THEN /\ run' = [run EXCEPT !.pc = "errcheck", !.said = "goodbye"]
            /\ should_stop' = TRUE
       ELSE /\ run' = [run EXCEPT !.pc = "errcheck"]
            /\ should_stop' = should_stop
    /\ UNCHANGED <<state, file, appended, error_count, is_sleeping, current_state, runIdle>>

\* lines 390-396: the error budget
error_check ==
    /\ run.pc = "errcheck"
    /\ IF error_count >= MAX_ERRORS
       THEN /\ run' = [run EXCEPT !.pc = "loop", !.said = "difficulties"]
            /\ should_stop' = TRUE
       ELSE /\ run' = [run EXCEPT !.pc = "loop"]
            /\ should_stop' = should_stop
    /\ UNCHANGED <<state, file, appended, error_count, is_sleeping, current_state, runIdle>>

\* lines 405-418: cleanup, and run returns
cleanup ==
    /\ run.pc = "cleanup"
    /\ run' = [run EXCEPT !.pc = "exit"]
    /\ UNCHANGED <<state, file, appended, error_count, should_stop, is_sleeping,
                   current_state, runIdle>>

NextRun ==
    \/ run_start
    \/ loop_test
    \/ wake_enter
    \/ listen_for_wake_word
    \/ say_yes
    \/ command_enter
    \/ listen_for_command
    \/ process_command
    \/ loop_except
    \/ response_generated
    \/ speak_response
    \/ end_check
    \/ error_check
    \/ cleanup

SpecRun == InitRun /\ [][NextRun]_vars

\* C7: once error_count >= max_errors (5) holds at the end of the wake-word
\* and command step of an iteration, the loop stops before it listens for
\* another wake word, in every mode, is_sleeping included: the loop never
\* starts to listen for a wake word with the error budget used up.
C7_ErrorBudgetStops ==
    run.pc = "wake" => error_count < MAX_ERRORS

\* C8: within an iteration the steps come in the order wake word, command,
\* process_command, response, speech: the command is listened for only
\* after a wake word was heard, process_command is called only for a
\* captured command, and the response is spoken only after it returned.
C8_StepsInOrder ==
    LET s == run.steps
    IN  \A i \in 1..Len(s) :
          /\ s[i] \in {"wake", "no wake"} => i = 1
          /\ s[i] \in {"command", "no command"} => (i = 2 /\ s[1] = "wake")
          /\ s[i] = "process" => (i = 3 /\ s[2] = "command")
          /\ s[i] = "response" => (i = 4 /\ s[3] = "process")
          /\ s[i] = "speak" => (i = 5 /\ s[4] = "response")

\* An iteration went through all five steps.
C8_Witness ==
    run.steps = <<"wake", "command", "process", "response", "speak">>

\* The command holds a phrase of one of the five local handlers.
IsLocal(command) ==
    any_in(command, SLEEP_PHRASES \cup TIMER_PHRASES \cup REMINDER_PHRASES
                    \cup NOTE_PHRASES \cup LIST_PHRASES)

\* The first of sleep, timer, reminder, note, list with a phrase in the
\* command.
FirstLocal(command) ==
    CHOOSE h \in {"sleep", "timer", "reminder", "note", "list"} :
        LET phrases(x) == CASE x = "sleep" -> SLEEP_PHRASES
                            [] x = "timer" -> TIMER_PHRASES
                            [] x = "reminder" -> REMINDER_PHRASES
                            [] x = "note" -> NOTE_PHRASES
                            [] OTHER -> LIST_PHRASES
            rank(x) == CASE x = "sleep" -> 1
                         [] x = "timer" -> 2
                         [] x = "reminder" -> 3
                         [] x = "note" -> 4
                         [] OTHER -> 5
        IN  /\ any_in(command, phrases(h))
            /\ \A g \in {"sleep", "timer", "reminder", "note", "list"} :
                 any_in(command, phrases(g)) => rank(h) <= rank(g)

\* C9: process_command routes a command with a sleep, timer, reminder, note
\* or list phrase to the local handler, the first in that order, without
\* calling generate_response, and any other command to the Gemini client by
\* exactly one generate_response call.
C9_RoutedOnce ==
    /\ run.pc = "llm" => (~IsLocal(run.command) /\ run.gen_calls = 1)
    /\ run.pc = "respond" =>
         IF IsLocal(run.command)
         THEN run.handler = FirstLocal(run.command) /\ run.gen_calls = 0
         ELSE run.handler = "none" /\ run.gen_calls = 1

\* A command with a timer phrase and a sleep phrase was handled by the
\* sleep handler.
C9_Witness ==
    /\ run.pc = "respond"
    /\ run.command = {"set timer", "sleep"}
    /\ run.handler = "sleep"
    /\ run.gen_calls = 0

(***************************************************************************)
(* GeminiClient: further properties of generate_response and get_weather.  *)
(***************************************************************************)
\* C11: generate_response never raises and always returns a string,
\* whatever sends fail and whether or not the replacement chat session can
\* be created between attempts: every call ends with a text, a weather
\* answer or a fallback response.
C11_NeverRaises ==
    llm.pc = "done" => llm.result.kind \in {"text", "weather", "fallback"}

(***************************************************************************)
(* TTSManager: _setup_tts, speak and cleanup, called by several threads.   *)
(* _lock is a threading.Lock: a thread that acquires it while holding it   *)
(* waits for ever.                                                         *)
(***************************************************************************)
ttsIdle == <<state, file, tmVars, appended, llm, runVars, store>>

\* TTSManager.__init__, lines 12-14: engine is None, the lock is free and
\* the constructing thread is about to call _setup_tts.
InitTts ==
    /\ state = DefaultState
    /\ file = DefaultState
    /\ appended = <<>>
    /\ now = 0
    /\ persisted = EmptyTable
    /\ tasks = EmptyTable
    /\ active_timers = {}
    /\ task_callbacks = <<>>
    /\ scheduler_running = TRUE
    /\ main = MainAt("init", 0)
    /\ poll = PollAt("top")
    /\ ex = [th \in ExecThreads |-> Idle]
    /\ executions = [id \in Ids |-> 0]
    /\ invoked = [id \in Ids |-> 0]
    /\ llm = LlmIdle
    /\ run = RunAt("start")
    /\ error_count = 0
    /\ should_stop = FALSE
    /\ is_sleeping = FALSE
    /\ current_state = "idle"
    /\ engine = "none"
    /\ lock = "free"
    /\ tts = [th \in TtsThreads |->
                IF th = "main" THEN TtsAt("setup", "init") ELSE TtsAt("idle", "none")]
    /\ store = StoreAt("init")

\* The TTSManager exists: its constructor has returned.
tts_constructed == tts["main"].ret # "init"

\* _setup_tts, lines 16-34: under the lock, an engine that is None is
\* created by pyttsx3.init(), which can raise and leave it None; the
\* exception is logged. The thread goes on where it called from.
setup_tts(th) ==
    /\ tts[th].pc = "setup"
    /\ lock = "free"
    /\ \E made \in BOOLEAN :
         engine' = IF engine = "none" /\ made THEN "ready" ELSE engine
    /\ tts' = [tts EXCEPT ![th] =
                 IF tts[th].ret = "init" THEN TtsAt("idle", "none")
                 ELSE [@ EXCEPT !.pc = "say", !.ret = "none"]]
    /\ UNCHANGED <<lock, ttsIdle>>

\* speak(text), lines 38-39
speak_call(th) ==
    /\ tts_constructed
    /\ tts[th].pc = "idle"
    /\ tts' = [tts EXCEPT ![th] = TtsAt("acquire", "none")]
    /\ UNCHANGED <<engine, lock, ttsIdle>>

\* speak, lines 40-43: the lock is taken; with engine None _setup_tts is
\* called, the lock held.
speak_acquire(th) ==
    /\ tts[th].pc = "acquire"
    /\ lock = "free"
    /\ lock' = th
    /\ tts' = [tts EXCEPT ![th] =
                 IF engine = "none" THEN [@ EXCEPT !.pc = "setup", !.ret = "say"]
                 ELSE [@ EXCEPT !.pc = "say"]]
    /\ UNCHANGED <<engine, ttsIdle>>

\* speak, lines 46-52 and 61-62: say and runAndWait under the lock. They
\* raise on an engine that is None and can raise on any engine. Leaving the
\* with block releases the lock; an exception of the try block goes to the
\* recovery of line 54, one of the recovery is logged and speak returns.
speak_say(th) ==
    /\ tts[th].pc = "say"
    /\ lock = th
    /\ lock' = "free"
    /\ \E spoken \in BOOLEAN :
         /\ spoken => engine # "none"
         /\ tts' = [tts EXCEPT ![th] =
                      IF spoken \/ tts[th].recovering
                      THEN [TtsAt("idle", "none") EXCEPT !.said = tts[th].said + 1]
                      ELSE [@ EXCEPT !.pc = "recover", !.said = @ + 1]]
    /\ UNCHANGED <<engine, ttsIdle>>

\* speak, lines 57-60: the recovery takes the lock, discards the engine and
\* calls _setup_tts, the lock held.
speak_recover(th) ==
    /\ tts[th].pc = "recover"
    /\ lock = "free"
    /\ lock' = th
    /\ engine' = "none"
    /\ tts' = [tts EXCEPT ![th] = [@ EXCEPT !.pc = "setup", !.ret = "say",
                                            !.recovering = TRUE]]
    /\ UNCHANGED ttsIdle

\* cleanup, lines 66-74, by the main thread: under the lock the engine is
\* stopped and discarded; an exception of stop is logged and leaves it.
tts_cleanup ==
    /\ tts_constructed
    /\ tts["main"].pc = "idle"
    /\ lock = "free"
    /\ engine = "ready"
    /\ \E stopped \in BOOLEAN :
         engine' = IF stopped THEN "none" ELSE engine
    /\ UNCHANGED <<lock, tts, ttsIdle>>

TtsStep(th) ==
    \/ setup_tts(th)
    \/ speak_acquire(th)
    \/ speak_say(th)
    \/ speak_recover(th)

NextTts ==
    \/ \E th \in TtsThreads : speak_call(th)
    \/ \E th \in TtsThreads : TtsStep(th)
    \/ tts_cleanup

SpecTts == InitTts /\ [][NextTts]_vars

\* Every thread inside TTSManager goes on when it can, and a thread that
\* waits for the lock gets it if the lock is free again and again.
TtsFairness ==
    \A th \in TtsThreads :
        /\ SF_vars(setup_tts(th))
        /\ SF_vars(speak_acquire(th))
        /\ WF_vars(speak_say(th))
        /\ SF_vars(speak_recover(th))

FairSpecTts == SpecTts /\ TtsFairness

\* C12: speak always terminates and never raises: after a failed first
\* attempt the engine is set up anew and the utterance retried once, and
\* speak returns whether or not the retry succeeds, also when it is called
\* with engine None: every call of speak returns.
C12_SpeakReturns ==
    \A th \in TtsThreads : (tts[th].pc = "acquire") ~> (tts[th].pc = "idle")

\* At most one thread is inside the say/runAndWait section.
TtsMutex ==
    \A a, b \in TtsThreads : (tts[a].pc = "say" /\ tts[b].pc = "say") => a = b

\* C13: when several threads call speak concurrently, at most one of them
\* is inside the say/runAndWait section at any time, and every caller
\* eventually gets the lock and returns.
C13_ExclusiveAndEventual ==
    /\ []TtsMutex
    /\ \A th \in TtsThreads :
         /\ (tts[th].pc = "acquire") ~> (lock = th)
         /\ (lock = th) ~> (tts[th].pc = "idle")

\* The message holds a weather keyword and an "in" followed by a word.
WeatherWithCity(message) ==
    /\ \E i \in 1..Len(message) : message[i] \in {"weather", "temperature"}
    /\ \E i \in 1..(Len(message) - 1) : message[i] = "in"

\* C14: a message with a weather keyword and the word "in" followed by
\* another word is answered by get_weather for that word without a call of
\* the chat API, and get_weather returns a string in each of its cases; any
\* other message, a weather message without "in <word>" included, goes to
\* the chat API.
C14_WeatherRouted ==
    LET m == llm.message
    IN  /\ llm.pc = "weather" => (WeatherWithCity(m) /\ llm.outcomes = <<>>)
        /\ llm.pc \in {"send", "recreate"} => ~WeatherWithCity(m)
        /\ (llm.pc = "done" /\ WeatherWithCity(m)) =>
              /\ llm.result.kind = "weather"
              /\ llm.how \in {"no key", "status 200", "other status", "exception"}
              /\ llm.outcomes = <<>>
              /\ llm.result.of \in 2..Len(m)
              /\ m[llm.result.of - 1] = "in"
              /\ \A j \in 1..(llm.result.of - 2) : m[j] # "in"
        /\ (llm.pc = "done" /\ ~WeatherWithCity(m)) =>
              /\ llm.result.kind # "weather"
              /\ Len(llm.outcomes) >= 1

\* The weather in Paris was asked for, the request raised, and get_weather
\* returned its apology for Paris without a call of the chat API.
C14_Witness ==
    /\ llm.pc = "done"
    /\ llm.message = <<"weather", "in", "paris">>
    /\ llm.result = [kind |-> "weather", of |-> 3]
    /\ llm.how = "exception"
    /\ llm.outcomes = <<>>

(***************************************************************************)
(* StateManager as a key-value store: load_state, save_state, get and set. *)
(***************************************************************************)
MaxValue == 1

\* Values of the keys that get and set are used with here.
IntVal(n) == [k |-> "int", v |-> n]
EmptyDict == [k |-> "dict", v |-> 0]

Values == {IntVal(n) : n \in 0..MaxValue}

\* StateManager.__init__, lines 25-31: the five default keys.
StateDefaults ==
    [conversation_history |-> <<>>, tasks |-> EmptyTable,
     user_preferences |-> EmptyDict, session_count |-> IntVal(0),
     last_active |-> None]

\* The keys that get and set are called with: two of the defaults and one
\* more.
StoreKeys == {"session_count", "last_active", "volume"}

\* The default that get is called with.
Default == [k |-> "default", v |-> 0]

\* No state file, and a state file that pickle.load cannot read.
NoFile == [exists |-> FALSE]
BadFile == [unreadable |-> TRUE]

\* load_state over fresh defaults, lines 25-43: the keys of a readable file
\* replace or join the defaults; without one the defaults stay, the
\* exception of a failed load is logged.
load_state(f) ==
    IF f \in {NoFile, BadFile}
    THEN StateDefaults
    ELSE [key \in DOMAIN f \cup DOMAIN StateDefaults |->
            IF key \in DOMAIN f THEN f[key] ELSE StateDefaults[key]]

\* set, line 61, without the save_state of line 62 and its line 48.
set_value_only(st, key, value, t) ==
    [k \in DOMAIN st \cup {key} |-> IF k = key THEN value ELSE st[k]]

\* set, lines 61-62, with save_state, line 48: the key is assigned, then
\* last_active is assigned the time of the save.
set_value(st, key, value, t) ==
    [k \in DOMAIN st \cup {key} |->
        IF k = "last_active" THEN Dt(t)
        ELSE IF k = key THEN value
        ELSE st[k]]

\* get, line 57: self.state.get(key, default)
get_value(st, key, default) ==
    IF key \in DOMAIN st THEN st[key] ELSE default

storeIdle == <<tmVars, appended, llm, runVars, ttsVars>>

\* The files a StateManager can find: none, an unreadable one, and what an
\* earlier run saved.
InitialFiles ==
    {NoFile, BadFile, set_value(StateDefaults, "session_count", IntVal(1), 0),
     set_value(StateDefaults, "volume", IntVal(1), 0)}

InitStore ==
    /\ file \in InitialFiles
    /\ state = load_state(file)
    /\ store = StoreAt("load")
    /\ appended = <<>>
    /\ now = 0
    /\ persisted = EmptyTable
    /\ tasks = EmptyTable
    /\ active_timers = {}
    /\ task_callbacks = <<>>
    /\ scheduler_running = TRUE
    /\ main = MainAt("init", 0)
    /\ poll = PollAt("top")
    /\ ex = [th \in ExecThreads |-> Idle]
    /\ executions = [id \in Ids |-> 0]
    /\ invoked = [id \in Ids |-> 0]
    /\ llm = LlmIdle
    /\ run = RunAt("start")
    /\ error_count = 0
    /\ should_stop = FALSE
    /\ is_sleeping = FALSE
    /\ current_state = "idle"
    /\ TtsConstructed

\* set(key, value), lines 59-62, with save_state, lines 45-53: the write
\* succeeds, or open fails and the file stays, or the dump fails and leaves
\* an unreadable file; the exception is logged.
store_set ==
    /\ \E key \in StoreKeys, value \in Values :
         /\ state' = set_value(state, key, value, now)
         /\ \E written \in BOOLEAN :
              /\ file' \in IF written THEN {state'} ELSE {file, BadFile}
              /\ store' = [op |-> "set", key |-> key, value |-> value,
                           result |-> None, written |-> written, at |-> now,
                           last |-> [key |-> key, value |-> value]]
    /\ UNCHANGED storeIdle

\* get(key, default), lines 55-57
store_get ==
    /\ \E key \in StoreKeys :
         store' = [store EXCEPT !.op = "get", !.key = key, !.value = Default,
                                !.result = get_value(state, key, Default)]
    /\ UNCHANGED <<state, file, storeIdle>>

\* The process ends and a new StateManager is made over the file.
store_restart ==
    /\ state' = load_state(file)
    /\ store' = StoreAt("load")
    /\ UNCHANGED <<file, storeIdle>>

\* Time passes between the calls.
store_tick ==
    /\ now < MaxTime
    /\ now' = now + 1
    /\ UNCHANGED <<state, file, store, tasks, active_timers, task_callbacks,
                   scheduler_running, main, poll, ex, executions, invoked,
                   persisted, appended, llm, runVars, ttsVars>>

NextStore ==
    \/ store_set
    \/ store_get
    \/ store_restart
    \/ store_tick

SpecStore == InitStore /\ [][NextStore]_vars

\* get returns the given default for an absent key; a start-up over a
\* missing or unreadable file leaves exactly the five default keys; after a
\* successful write the file holds the whole state.
StoreRest ==
    /\ (store.op = "get" /\ store.key \notin DOMAIN state) =>
          store.result = store.value
    /\ (store.op = "load" /\ file \in {NoFile, BadFile}) =>
          state = StateDefaults
    /\ (store.op = "set" /\ store.written) => file = state

\* C15 as stated: after set(k, v), get(k) returns v, for every key, also
\* when the write has failed; with the rest of the claim.
C15_SetThenGet ==
    /\ store.op = "set" => state[store.key] = store.value
    /\ (store.op = "get" /\ store.key = store.last.key) =>
          store.result = store.last.value
    /\ StoreRest

\* C15: the StateManager is a persisted key-value store: after set(k, v)
\* for a key other than 'last_active', get(k) returns v, also when the
\* write has failed, and 'last_active' holds the time of the save; after a
\* successful write the file holds the whole state; get of an absent key
\* returns the default; a missing or unreadable file leaves the five
\* default keys.
C15_SetThenGetButLastActive ==
    /\ store.op = "set" =>
          /\ store.key # "last_active" => state[store.key] = store.value
          /\ state["last_active"] = Dt(store.at)
    /\ (store.op = "get" /\ store.key = store.last.key) =>
          store.result = IF store.key = "last_active"
                         THEN state["last_active"]
                         ELSE store.last.value
    /\ StoreRest

\* A value was set, the write failed and left an unreadable file, and get
\* returns the value.
C15_Witness ==
    /\ store.op = "get"
    /\ store.key = "volume"
    /\ store.last = [key |-> "volume", value |-> IntVal(1)]
    /\ store.result = IntVal(1)
    /\ file = BadFile

(***************************************************************************)
(* VoiceAssistant.run: sleep mode.                                         *)
(***************************************************************************)
\* C16: after a sleep command ('sleep', 'okay for now', 'goodbye for now')
\* is processed the assistant keeps running in sleep mode: is_sleeping is
\* true and should_stop false until a later wake word is detected.
C16_SleepKeepsRunning ==
    /\ (run.handler = "sleep" /\ run.pc \in {"respond", "endcheck", "errcheck", "loop"})
          => is_sleeping
    /\ is_sleeping => (~should_stop /\ run.pc \notin {"cleanup", "exit"})

(***************************************************************************)
(* TaskManager: further properties of scheduling.                          *)
(***************************************************************************)
\* The task was completed by this run, not by the one before.
CompletedNow(id) ==
    /\ tasks[id].completed
    /\ ~(id \in DOMAIN persisted /\ persisted[id].completed)

\* C17: a task is never marked completed before its scheduled_time, and a
\* task without a scheduled_time is never executed or marked completed by
\* the timer or the poller.
C17_NotBeforeDue ==
    /\ \A id \in DOMAIN tasks :
         (CompletedNow(id) \/ executions[id] > 0) =>
            /\ tasks[id].scheduled_time.k = "dt"
            /\ tasks[id].scheduled_time.v <= now
    /\ \A th \in ExecThreads :
         (ex[th].pc = "mark" /\ ex[th].id \in DOMAIN tasks) =>
            /\ tasks[ex[th].id].scheduled_time.k = "dt"
            /\ tasks[ex[th].id].scheduled_time.v <= now

\* A timer created in this run for a later time was completed when that
\* time had come.
C17_Witness ==
    \E id \in DOMAIN tasks :
        /\ id \notin DOMAIN persisted
        /\ tasks[id].type = "timer"
        /\ tasks[id].completed
        /\ executions[id] = 1
        /\ tasks[id].scheduled_time.v > tasks[id].created_at.v
        /\ now = tasks[id].scheduled_time.v

(***************************************************************************)
(* TaskManager called directly: a caller that creates one task after       *)
(* another without the main loop's listening in between.                   *)
(***************************************************************************)
MaxExecutions == 1

\* create_task has returned, line 93, and the caller goes on at once.
create_returned ==
    /\ main.pc = "listen"
    /\ executions[main.id] < MaxExecutions
    /\ main' = MainAt("idle", 0)
    /\ UNCHANGED <<now, diskVars, tasks, active_timers, task_callbacks,
                   scheduler_running, poll, ex, histVars>>

NextApi ==
    \/ Next
    \/ create_returned

SpecApi == Init /\ [][NextApi]_vars

\* C18: any two create_task calls on the same TaskManager return distinct
\* task ids, so that creating a task never overwrites another task's entry
\* in the task table or its timer: the id that create_task gives a task is
\* never one the table holds already.
C18_DistinctIds ==
    [][(main.pc = "idle" /\ main'.pc \in {"sched", "save"})
         => main'.id \notin DOMAIN tasks]_vars

(***************************************************************************)
(* TaskManager.stop_scheduler.                                             *)
(***************************************************************************)
\* C19: after stop_scheduler has returned no task is marked completed and
\* no completion callback is invoked any more, neither by a timer that was
\* already firing nor by a polling pass that was already in progress, and
\* the persisted state keeps the pending tasks uncompleted.
C19_NothingAfterStop ==
    [][(main.pc = "stopped" \/ "stop_scheduler" \in main.cleaned) =>
         /\ executions' = executions
         /\ invoked' = invoked
         /\ \A id \in DOMAIN tasks : tasks'[id].completed = tasks[id].completed
         /\ \A id \in DOMAIN state.tasks :
              state'.tasks[id].completed = state.tasks[id].completed
         /\ \A id \in DOMAIN file.tasks :
              file'.tasks[id].completed = file.tasks[id].completed]_vars

(***************************************************************************)
(* VoiceAssistant.cleanup.                                                 *)
(***************************************************************************)
\* C20: every exit from run goes through cleanup, and cleanup performs all
\* of its steps and never raises: when it has returned the scheduler is
\* stopped and its timers are cancelled, audio and TTS are released, the
\* state has been saved and the event loop closed.
C20_CleanupComplete ==
    main.pc = "exit" =>
        /\ main.cleaned = CleanupSteps
        /\ ~scheduler_running
        /\ \A th \in ExecThreads : ex[th].pc # "armed"

(***************************************************************************)
(* VoiceAssistant.run: the end of the conversation.                        *)
(***************************************************************************)
\* The command of this iteration holds one of the phrases of line 381.
StopCommand == any_in(run.command, STOP_PHRASES)

C22_ResetOnlyOnSuccess ==
    /\ [][(run.pc = "llm" /\ run'.outcome = "text") => error_count' = 0]_vars
    /\ [][(error_count # 0 /\ error_count' = 0) =>
             (run.pc = "llm" /\ run'.outcome = "text")]_vars

(***************************************************************************)
(* VoiceAssistant.run: exceptions.                                         *)
(***************************************************************************)
\* The step raises an exception inside the loop's iteration.
Raised == run.exc = "none" /\ run'.exc # "none"

\* The positions of run inside its while loop.
InLoop ==
    {"loop", "wake", "wake_rec", "yes", "cmd", "cmd_rec", "process", "llm",
     "respond", "endcheck", "errcheck"}

MaxCallbacks == 2

\* The callbacks in the order of their registration.
Callbacks == <<"_on_task_completed", "second", "third", "fourth">>

\* add_task_callback, lines 39-41, for a further callback
add_task_callback_again ==
    /\ main.pc = "idle"
    /\ Len(task_callbacks) < MaxCallbacks
    /\ task_callbacks' = Append(task_callbacks, Callbacks[Len(task_callbacks) + 1])
    /\ UNCHANGED <<now, diskVars, tasks, active_timers, scheduler_running, main,
                   poll, ex, histVars>>

NextCallbacks ==
    \/ Next
    \/ add_task_callback_again

SpecCallbacks == Init /\ [][NextCallbacks]_vars

\* C24: an exception raised by a completion callback does not stop
\* _execute_task: all registered callbacks are called, in the order of
\* their registration, the task stays marked completed, and the thread goes
\* on to save_tasks, which persists the table with the task completed, and
\* to the removal of the task's entry from active_timers; only save_tasks
\* itself, finding the table changed in size, ends the thread before.
C24_CallbackExceptionContained ==
    /\ [](\A th \in ExecThreads :
            (ex[th].pc \in {"snap", "set"}) =>
               /\ tasks[ex[th].id].completed
               /\ ex[th].called = SubSeq(Callbacks, 1, Len(ex[th].called)))
    /\ [][\A th \in ExecThreads :
            (ex[th].pc = "mark" /\ ex[th].id \in DOMAIN tasks /\ ex'[th] # ex[th]) =>
               /\ ex'[th].pc = "snap"
               /\ ex'[th].called = task_callbacks]_vars
    /\ [][\A th \in ExecThreads :
            (ex[th].pc = "snap" /\ ex'[th].pc \notin {"snap", "set"}) =>
               Cardinality(DOMAIN tasks) # ex[th].n]_vars
    /\ [][\A th \in ExecThreads :
            (ex[th].pc = "set" /\ ex'[th] # ex[th]) =>
               /\ state'.tasks[ex[th].id].completed
               /\ file' = state'
               /\ ex[th].id \notin active_timers'
               /\ ex'[th].pc \in {"done", "off"}]_vars

\* The first of two callbacks raised for a task, the second was called all
\* the same, and the timer thread has saved the table and removed its entry.
C24_Witness ==
    \E th \in Ids :
        /\ ex[th].pc = "done"
        /\ ex[th].raising = {1}
        /\ ex[th].called = <<"_on_task_completed", "second">>
        /\ tasks[th].completed
        /\ state.tasks[th].completed
        /\ th \notin active_timers

(***************************************************************************)
(* VoiceAssistant.current_state.                                           *)
(***************************************************************************)
\* The positions of the main thread inside listen_for_wake_word,
\* listen_for_command and process_command.
InsideFunction == {"wake_rec", "cmd_rec", "llm"}

\* C25: speak, listen_for_wake_word, listen_for_command and process_command
\* each leave current_state IDLE when they return, on the success path and
\* on every exception path: outside these functions the main loop finds
\* current_state IDLE; the ERROR state is never entered.
C25_IdleOnReturn ==
    /\ current_state \in {"idle", "listening", "processing", "speaking"}
    /\ run.pc \notin InsideFunction => current_state = "idle"

\* listen_for_command has raised, after the wake word was heard and 'Yes?'
\* spoken, and has left current_state IDLE.
C25_Witness ==
    /\ run.pc = "errcheck"
    /\ run.exc = "listen_for_command"
    /\ run.said = "yes"
    /\ current_state = "idle"

(***************************************************************************)
(* The main loop together with the task manager's threads: the timers of   *)
(* the tasks loaded at start-up and the polling thread run while the main  *)
(* thread listens and processes; their callback is _on_task_completed.     *)
(***************************************************************************)
NextConcurrent ==
    \/ add_task_callback
    \/ Tick
    \/ PollStep
    \/ \E th \in ExecThreads : ExecStep(th)
    \/ NextRun

\* The assistant starts with reminders pending from the previous run, due
\* already or later.
InitConcurrent ==
    /\ Init
    /\ persisted # EmptyTable
    /\ \A id \in DOMAIN persisted :
         persisted[id].type = "reminder" /\ ~persisted[id].completed

SpecConcurrent == InitConcurrent /\ [][NextConcurrent]_vars

\* C26: current_state always reflects what the main loop is doing: it is
\* LISTENING while the main thread records inside listen_for_wake_word or
\* listen_for_command and PROCESSING while it is inside process_command,
\* also when a completion callback runs speak on a timer thread or on the
\* polling thread at the same time.
C26_StateReflectsMainLoop ==
    /\ run.pc \in {"wake_rec", "cmd_rec"} => current_state = "listening"
    /\ run.pc = "llm" => current_state = "processing"

(***************************************************************************)
(* VoiceAssistant.process_command: the conversation history.               *)
(***************************************************************************)
\* The last message given to update_conversation.
LastAppended == appended[Len(appended)]

\* The messages of the command the loop has captured last.
UserMessage == ConversationMessage("user", run.captured)
ModelMessage == ConversationMessage("model", run.captured)

\* C27: process_command appends the user's command to the conversation
\* history before it routes it, for every command; a 'model' message is
\* appended only when generate_response has returned, directly after the
\* user message of the same command; a command that a local task handler
\* answers or that ends in an exception appends no 'model' message.
C27_HistoryOrder ==
    /\ [](\A i \in 1..Len(appended) :
            appended[i].role = "model" =>
               /\ i > 1
               /\ appended[i - 1] = ConversationMessage("user", appended[i].content))
    /\ [](run.pc = "llm" => (Len(appended) > 0 /\ LastAppended = UserMessage))
    /\ [](run.pc = "respond" =>
            /\ Len(appended) > 0
            /\ LastAppended =
                 IF run.handler # "none" \/ run.exc # "none"
                 THEN UserMessage ELSE ModelMessage)
    /\ [][(run.pc = "process" /\ run'.pc \in {"llm", "respond"}) =>
             appended' = Append(appended, UserMessage)]_vars
    /\ [][(appended' # appended /\ appended'[Len(appended')].role = "model") =>
             /\ run.pc = "llm"
             /\ run'.outcome \in {"text", "fallback"}
             /\ appended' = Append(appended, ModelMessage)]_vars
    /\ [][Len(appended') \in {Len(appended), Len(appended) + 1}]_vars

\* A first command was answered by the Gemini client, a second by a local
\* handler: the history holds user, model, user.
C27_Witness ==
    /\ run.pc = "respond"
    /\ run.handler # "none"
    /\ Len(appended) = 3
    /\ appended[1] = ConversationMessage("user", 1)
    /\ appended[2] = ConversationMessage("model", 1)
    /\ appended[3] = ConversationMessage("user", 2)
    /\ state.conversation_history = appended

(***************************************************************************)
(* VoiceAssistant._create_timer and _create_reminder: the scheduled time.  *)
(***************************************************************************)
\* C28: every timer or reminder task the assistant creates with a
\* scheduled_time has it strictly later than the moment of its creation: a
\* timer is due total_seconds > 0 after now, and a reminder 'in N minutes',
\* 'in N hours' or 'at H:MM' is never scheduled at or before the current
\* time.
C28_ScheduledLater ==
    \A id \in DOMAIN tasks \cap 0..MaxTime :
        tasks[id].scheduled_time.k = "dt" =>
            tasks[id].scheduled_time.v > tasks[id].created_at.v

====
